---- MODULE Spec2Model ----
(***************************************************************************)
(* Model of the dialog crate: the Dialog backend (src/backends/dialog.rs)  *)
(* serialises a dialog box and its configuration into the argument vector  *)
(* of the external `dialog` program, runs it, and classifies the exit      *)
(* status and the captured error stream.                                   *)
(***************************************************************************)
EXTENDS Integers, Sequences, FiniteSets, TLC

VARIABLES backend, request, pc, args, spawns, child, output, result, calls,
          env, selected, first

vars == <<backend, request, pc, args, spawns, child, output, result, calls,
          env, selected, first>>

(***************************************************************************)
(* Bounds of the model.                                                    *)
(***************************************************************************)
MaxDim == 1        \* largest height / width given to set_height, set_width
MaxRows == 1       \* largest menu_height / form_height
MaxItems == 2      \* longest menu list (in [name, value] entries)
MaxFields == 1     \* longest form list (in field tuples)

(***************************************************************************)
(* Option<T>: None is the empty tuple, Some(v) the one-element tuple.      *)
(***************************************************************************)
None == <<>>
Some(v) == <<v>>
IsSome(o) == Len(o) = 1
Unwrap(o) == o[1]
Option(S) == {None} \cup {Some(v) : v \in S}

(***************************************************************************)
(* Result<T>: Ok(v), Err(e); a panic unwinds out of the call and is        *)
(* neither.                                                                *)
(***************************************************************************)
Ok(v) == [tag |-> "Ok", val |-> v]
Err(e) == [tag |-> "Err", err |-> e]
Panic == [tag |-> "Panic"]
Pending == [tag |-> "Pending"]
Unit == "()"

(***************************************************************************)
(* u32 / u8 to_string: decimal digits, most significant first.             *)
(***************************************************************************)
Digit(d) ==
    CASE d = 0 -> "0" [] d = 1 -> "1" [] d = 2 -> "2" [] d = 3 -> "3"
      [] d = 4 -> "4" [] d = 5 -> "5" [] d = 6 -> "6" [] d = 7 -> "7"
      [] d = 8 -> "8" [] d = 9 -> "9"

RECURSIVE to_string(_)
to_string(n) ==
    IF n < 10 THEN Digit(n) ELSE to_string(n \div 10) \o Digit(n % 10)

(***************************************************************************)
(* Inputs.                                                                 *)
(***************************************************************************)
Texts == {"Please choose"}
Labels == {"Label"}
Dims == {0, MaxDim}
Rows == {0, MaxRows}
Percents == {0, 50, 255}

\* The file system the program runs on: the directories that exist, and the
\* paths a caller may hand to FileSelection::path.  NonUnicodePaths are the
\* OS strings that are not valid Unicode.
ExistingDirs == {"/etc", "/etc/", "/", "/srv/<FF>"}
NonUnicodePaths == {"/srv/<FF>"}
Paths == ExistingDirs \cup {"/etc/passwd", "/nonexistent", ""}

is_dir(path) == path \in ExistingDirs
to_str(path) == IF path \in NonUnicodePaths THEN None ELSE Some(path)

\* Bytes captured from the child's standard error.  <<255>> and <<195>> are
\* not valid UTF-8; <<195, 169>> is a two-byte character; 10 is a newline.
StderrBytes == {<<>>, <<105, 49>>, <<97, 10, 98>>, <<195, 169>>, <<255>>, <<195>>}
SampleStderr == {<<105, 49>>, <<255>>}

\* String::from_utf8 restricted to one- and two-byte sequences: the lead
\* bytes of longer sequences (224..244) do not occur in StderrBytes.
RECURSIVE Utf8Valid(_)
Utf8Valid(b) ==
    IF b = <<>> THEN TRUE
    ELSE IF b[1] < 128 THEN Utf8Valid(Tail(b))
    ELSE IF b[1] \in 194..223
         THEN Len(b) >= 2 /\ b[2] \in 128..191 /\ Utf8Valid(SubSeq(b, 3, Len(b)))
    ELSE FALSE

from_utf8(b) == IF Utf8Valid(b) THEN Ok(b) ELSE Err("FromUtf8Error")

\* process::ExitStatus: an exit code, or none when a signal ended the child.
AllCodes == Option(0..255)
SampleCodes == {None, Some(0), Some(42)}
ExitStatus(code) == [code |-> code]
success(status) == status.code = Some(0)
OsErrors == {"NotFound", "PermissionDenied"}

(***************************************************************************)
(* Error values.                                                           *)
(***************************************************************************)
IoError(e) == [kind |-> "IoError", os |-> e]
ErrorFromStatus(command, status) ==
    [kind |-> "ExternalToolFailed", command |-> command, status |-> status]
ErrorFromStr(msg) == [kind |-> "InvalidPath", msg |-> msg]

(***************************************************************************)
(* Dialog boxes (src/lib.rs).                                              *)
(***************************************************************************)
RECURSIVE flatten(_)
flatten(list) ==
    IF list = <<>> THEN <<>> ELSE Head(list) \o flatten(Tail(list))

SeqsUpTo(S, n) == UNION {[1..k -> S] : k \in 0..n}

\* Mutation: an entry whose item name occurred before is dropped.
RECURSIVE unique(_, _)
unique(list, names) ==
    IF list = <<>> THEN <<>>
    ELSE IF Head(list)[1] \in names THEN unique(Tail(list), names)
    ELSE <<Head(list)>> \o unique(Tail(list), names \cup {Head(list)[1]})

Menu_new_unique(text, menu_height, list) ==
    [type |-> "Menu", text |-> text, menu_height |-> menu_height,
     list |-> flatten(unique(list, {}))]

Menu_new(text, menu_height, list) ==
    [type |-> "Menu", text |-> text, menu_height |-> menu_height,
     list |-> flatten(list)]

Message_new(text) == [type |-> "Message", text |-> text]

Input_new(text) == [type |-> "Input", text |-> text, default |-> None]
Input_default(input, default) == [input EXCEPT !.default = Some(default)]

Password_new(text) == [type |-> "Password", text |-> text]

Question_new(text) == [type |-> "Question", text |-> text]

\* dirs::home_dir() is None when the home directory cannot be determined.
HomeDirs == {None, Some("/etc")}
FileSelection_new(text, home_dir) ==
    [type |-> "FileSelection", text |-> text, path |-> home_dir, mode |-> "Open"]
FileSelection_path(fs, path) == [fs EXCEPT !.path = Some(path)]
FileSelection_mode(fs, mode) == [fs EXCEPT !.mode = mode]

\* Mutation: the directory check is left out.
path_to_string_unchecked(fs) ==
    IF IsSome(fs.path)
    THEN IF IsSome(to_str(Unwrap(fs.path)))
         THEN Some(Unwrap(to_str(Unwrap(fs.path))) \o "/")
         ELSE None
    ELSE None

path_to_string(fs) ==
    IF IsSome(fs.path) /\ is_dir(Unwrap(fs.path))
    THEN IF IsSome(to_str(Unwrap(fs.path)))
         THEN Some(Unwrap(to_str(Unwrap(fs.path))) \o "/")
         ELSE None
    ELSE None

Gauge_new(text, percent) == [type |-> "Gauge", text |-> text, percent |-> percent]
MixedGauge_new(text, percent) ==
    [type |-> "MixedGauge", text |-> text, percent |-> percent]

\* format!("{} {} {} {} {} {} {} {}", x1, .., x8)
format_field(f) ==
    f[1] \o " " \o to_string(f[2]) \o " " \o to_string(f[3]) \o " " \o f[4]
         \o " " \o to_string(f[5]) \o " " \o to_string(f[6])
         \o " " \o to_string(f[7]) \o " " \o to_string(f[8])

format_list(list) == [i \in 1..Len(list) |-> format_field(list[i])]

Form_new(text, form_height, list) ==
    [type |-> "Form", text |-> text, form_height |-> form_height,
     list |-> format_list(list)]
MixedForm_new(text, form_height, list) ==
    [type |-> "MixedForm", text |-> text, form_height |-> form_height,
     list |-> format_list(list)]
PasswordForm_new(text, form_height, list) ==
    [type |-> "PasswordForm", text |-> text, form_height |-> form_height,
     list |-> format_list(list)]

\* The dialog boxes a caller can build.
MenuEntries == {<<"item1", "value1">>, <<"item1", "value2">>}
FieldTuples == {<<"Name", 1, 1, "", 1, 10, 20, 0>>,
                <<"Key", 2, 1, "x", 2, 10, 255, 12>>}

Messages == {Message_new(t) : t \in Texts}
Questions == {Question_new(t) : t \in Texts}
Passwords == {Password_new(t) : t \in Texts}
Inputs == {Input_new(t) : t \in Texts}
            \cup {Input_default(Input_new(t), d) : t \in Texts, d \in Labels}
Menus == {Menu_new(t, h, l) :
            t \in Texts, h \in Rows, l \in SeqsUpTo(MenuEntries, MaxItems)}
Forms == {Form_new(t, h, l) :
            t \in Texts, h \in Rows, l \in SeqsUpTo(FieldTuples, MaxFields)}
MixedForms == {MixedForm_new(t, h, l) :
            t \in Texts, h \in Rows, l \in SeqsUpTo(FieldTuples, MaxFields)}
PasswordForms == {PasswordForm_new(t, h, l) :
            t \in Texts, h \in Rows, l \in SeqsUpTo(FieldTuples, MaxFields)}
Gauges == {Gauge_new(t, p) : t \in Texts, p \in Percents}
MixedGauges == {MixedGauge_new(t, p) : t \in Texts, p \in Percents}
FileSelections ==
    LET fresh == {FileSelection_new(t, h) : t \in Texts, h \in HomeDirs}
        pathed == fresh \cup {FileSelection_path(f, p) : f \in fresh, p \in Paths}
    IN  pathed \cup {FileSelection_mode(f, "Save") : f \in pathed}

(***************************************************************************)
(* The Dialog backend (src/backends/dialog.rs).                            *)
(***************************************************************************)
Default ==
    [backtitle |-> None, title |-> None, label_okbutton |-> None,
     label_extrabutton |-> None, label_cancelbutton |-> None,
     label_helpbutton |-> None, insecure |-> FALSE, cancelbutton |-> TRUE,
     height |-> "0", width |-> "0"]

\* Mutation: the cancel-button test is inverted.
common_options_cancel(self) ==
    (IF IsSome(self.backtitle)
        THEN <<"--backtitle", Unwrap(self.backtitle)>> ELSE <<>>)
    \o (IF IsSome(self.title)
        THEN <<"--title", Unwrap(self.title)>> ELSE <<>>)
    \o (IF IsSome(self.label_okbutton)
        THEN <<"--ok-label", Unwrap(self.label_okbutton)>> ELSE <<>>)
    \o (IF IsSome(self.label_extrabutton)
        THEN <<"--extra-button", "--extra-label", Unwrap(self.label_extrabutton)>>
        ELSE <<>>)
    \o (IF IsSome(self.label_cancelbutton)
        THEN <<"--cancel-label", Unwrap(self.label_cancelbutton)>> ELSE <<>>)
    \o (IF IsSome(self.label_helpbutton)
        THEN <<"--help-button", "--help-label", Unwrap(self.label_helpbutton)>>
        ELSE <<>>)
    \o (IF self.cancelbutton THEN <<"--no-cancel">> ELSE <<>>)
    \o (IF self.insecure THEN <<"--insecure">> ELSE <<>>)

\* Mutation: the insecure test is inverted.
common_options_secure(self) ==
    (IF IsSome(self.backtitle)
        THEN <<"--backtitle", Unwrap(self.backtitle)>> ELSE <<>>)
    \o (IF IsSome(self.title)
        THEN <<"--title", Unwrap(self.title)>> ELSE <<>>)
    \o (IF IsSome(self.label_okbutton)
        THEN <<"--ok-label", Unwrap(self.label_okbutton)>> ELSE <<>>)
    \o (IF IsSome(self.label_extrabutton)
        THEN <<"--extra-button", "--extra-label", Unwrap(self.label_extrabutton)>>
        ELSE <<>>)
    \o (IF IsSome(self.label_cancelbutton)
        THEN <<"--cancel-label", Unwrap(self.label_cancelbutton)>> ELSE <<>>)
    \o (IF IsSome(self.label_helpbutton)
        THEN <<"--help-button", "--help-label", Unwrap(self.label_helpbutton)>>
        ELSE <<>>)
    \o (IF ~self.cancelbutton THEN <<"--no-cancel">> ELSE <<>>)
    \o (IF ~self.insecure THEN <<"--insecure">> ELSE <<>>)

common_options(self) ==
    (IF IsSome(self.backtitle)
        THEN <<"--backtitle", Unwrap(self.backtitle)>> ELSE <<>>)
    \o (IF IsSome(self.title)
        THEN <<"--title", Unwrap(self.title)>> ELSE <<>>)
    \o (IF IsSome(self.label_okbutton)
        THEN <<"--ok-label", Unwrap(self.label_okbutton)>> ELSE <<>>)
    \o (IF IsSome(self.label_extrabutton)
        THEN <<"--extra-button", "--extra-label", Unwrap(self.label_extrabutton)>>
        ELSE <<>>)
    \o (IF IsSome(self.label_cancelbutton)
        THEN <<"--cancel-label", Unwrap(self.label_cancelbutton)>> ELSE <<>>)
    \o (IF IsSome(self.label_helpbutton)
        THEN <<"--help-button", "--help-label", Unwrap(self.label_helpbutton)>>
        ELSE <<>>)
    \o (IF ~self.cancelbutton THEN <<"--no-cancel">> ELSE <<>>)
    \o (IF self.insecure THEN <<"--insecure">> ELSE <<>>)

\* Mutation: the width is pushed before the height.
command_args_swapped(self, boxtype, boxtype_arg, box_args) ==
    common_options(self)
    \o <<boxtype>>
    \o (IF IsSome(boxtype_arg) THEN <<Unwrap(boxtype_arg)>> ELSE <<>>)
    \o <<self.width, self.height>>
    \o box_args

\* The argument vector execute() hands to the `dialog` command.
command_args(self, boxtype, boxtype_arg, box_args) ==
    common_options(self)
    \o <<boxtype>>
    \o (IF IsSome(boxtype_arg) THEN <<Unwrap(boxtype_arg)>> ELSE <<>>)
    \o <<self.height, self.width>>
    \o box_args

\* Mutation: a process ended by a signal counts as a success.
require_success_signal(status) ==
    IF status.code \in {None, Some(0)}
    THEN Ok(Unit) ELSE Err(ErrorFromStatus("dialog", status))

require_success(status) ==
    IF success(status) THEN Ok(Unit) ELSE Err(ErrorFromStatus("dialog", status))

\* Mutation: the question classifier accepts the help and extra codes.
get_choice_buttons(status) ==
    IF IsSome(status.code)
    THEN CASE Unwrap(status.code) = 0 -> Ok("Yes")
           [] Unwrap(status.code) = 1 -> Ok("No")
           [] Unwrap(status.code) = 2 -> Ok("Help")
           [] Unwrap(status.code) = 3 -> Ok("Extra")
           [] Unwrap(status.code) = 255 -> Ok("Escape")
           [] OTHER -> Err(ErrorFromStatus("dialog", status))
    ELSE Err(ErrorFromStatus("dialog", status))

get_choice(status) ==
    IF IsSome(status.code)
    THEN CASE Unwrap(status.code) = 0 -> Ok("Yes")
           [] Unwrap(status.code) = 1 -> Ok("No")
           [] Unwrap(status.code) = 255 -> Ok("Escape")
           [] OTHER -> Err(ErrorFromStatus("dialog", status))
    ELSE Err(ErrorFromStatus("dialog", status))

\* Mutation: the error stream is decoded only for a recognised exit code.
get_choices_lazy(out) ==
    IF IsSome(out.status.code)
    THEN IF Unwrap(out.status.code) \notin {0, 1, 2, 3, 255}
         THEN Err(ErrorFromStatus("dialog", out.status))
         ELSE IF from_utf8(out.stderr).tag = "Err"
         THEN Panic
         ELSE LET output_dialog == Some(from_utf8(out.stderr).val)
              IN  CASE Unwrap(out.status.code) = 0 -> Ok(<<"Yes", output_dialog>>)
                    [] Unwrap(out.status.code) = 1 -> Ok(<<"Cancel", output_dialog>>)
                    [] Unwrap(out.status.code) = 2 -> Ok(<<"Help", output_dialog>>)
                    [] Unwrap(out.status.code) = 3 -> Ok(<<"Extra", output_dialog>>)
                    [] Unwrap(out.status.code) = 255 -> Ok(<<"Escape", output_dialog>>)
    ELSE Err(ErrorFromStatus("dialog", out.status))

\* Mutation: the help and extra codes are swapped.
get_choices_swapped(out) ==
    IF IsSome(out.status.code)
    THEN IF from_utf8(out.stderr).tag = "Err"
         THEN Panic
         ELSE LET output_dialog == Some(from_utf8(out.stderr).val)
              IN  CASE Unwrap(out.status.code) = 0 -> Ok(<<"Yes", output_dialog>>)
                    [] Unwrap(out.status.code) = 1 -> Ok(<<"Cancel", output_dialog>>)
                    [] Unwrap(out.status.code) = 2 -> Ok(<<"Extra", output_dialog>>)
                    [] Unwrap(out.status.code) = 3 -> Ok(<<"Help", output_dialog>>)
                    [] Unwrap(out.status.code) = 255 -> Ok(<<"Escape", output_dialog>>)
                    [] OTHER -> Err(ErrorFromStatus("dialog", out.status))
    ELSE Err(ErrorFromStatus("dialog", out.status))

get_choices(out) ==
    IF IsSome(out.status.code)
    THEN IF from_utf8(out.stderr).tag = "Err"
         THEN Panic
         ELSE LET output_dialog == Some(from_utf8(out.stderr).val)
              IN  CASE Unwrap(out.status.code) = 0 -> Ok(<<"Yes", output_dialog>>)
                    [] Unwrap(out.status.code) = 1 -> Ok(<<"Cancel", output_dialog>>)
                    [] Unwrap(out.status.code) = 2 -> Ok(<<"Help", output_dialog>>)
                    [] Unwrap(out.status.code) = 3 -> Ok(<<"Extra", output_dialog>>)
                    [] Unwrap(out.status.code) = 255 -> Ok(<<"Escape", output_dialog>>)
                    [] OTHER -> Err(ErrorFromStatus("dialog", out.status))
    ELSE Err(ErrorFromStatus("dialog", out.status))

StatusOnly == {"Message", "Gauge", "MixedGauge"}
ChoiceText == {"Input", "Password", "Menu", "Form", "MixedForm", "PasswordForm",
               "FileSelection"}

\* The classifier each show_* method chains after execute() with and_then.
classifier(type) ==
    IF type \in StatusOnly THEN "require_success"
    ELSE IF type = "Question" THEN "get_choice"
    ELSE "get_choices"

and_then(type, out) ==
    IF type \in StatusOnly THEN require_success(out.status)
    ELSE IF type = "Question" THEN get_choice(out.status)
    ELSE get_choices(out)

NoOutput == [status |-> ExitStatus(None), stderr |-> <<>>]
NoRequest == [type |-> "none"]

InitBox ==
    /\ backend = Default
    /\ request = NoRequest
    /\ pc = "idle"
    /\ args = <<>>
    /\ spawns = 0
    /\ child = "none"
    /\ output = NoOutput
    /\ result = Pending
    /\ calls = <<>>

\* The DIALOG environment variable of the process: absent, set to a value
\* that is not valid Unicode, or set to a string (a sequence of characters).
EnvAbsent == [present |-> FALSE, unicode |-> TRUE, chars |-> <<>>]
EnvNotUnicode == [present |-> TRUE, unicode |-> FALSE, chars |-> <<>>]
EnvSet(chars) == [present |-> TRUE, unicode |-> TRUE, chars |-> chars]
EnvValues ==
    {EnvAbsent, EnvNotUnicode, EnvSet(<<>>),
     EnvSet(<<"d", "i", "a", "l", "o", "g">>),
     EnvSet(<<"D", "I", "A", "L", "O", "G">>),
     EnvSet(<<"D", "i", "a", "L", "o", "g">>),
     EnvSet(<<"d", "i", "a", "l", "o", "g", "2">>),
     EnvSet(<<"z", "e", "n", "i", "t", "y">>)}

NotSelected == [name |-> "none", via |-> "none"]

\* Bookkeeping for the first executed invocation: switched off, waiting for
\* it, or <<"first", backend, box, argument vector, shown again>>.
Off == <<"off">>
Armed == <<"armed">>
remember(f, self, box, argv) ==
    IF f = Off THEN Off
    ELSE IF f = Armed THEN <<"first", self, box, argv, FALSE>>
    ELSE IF f[2] = self /\ f[3] = box THEN [f EXCEPT ![5] = TRUE]
    ELSE f

Init ==
    /\ InitBox
    /\ env = EnvAbsent
    /\ selected = NotSelected
    /\ first = Off

(***************************************************************************)
(* Configuration setters.                                                  *)
(***************************************************************************)
Configure(new) ==
    /\ pc = "idle"
    /\ backend' = new
    /\ UNCHANGED <<request, pc, args, spawns, child, output, result, calls,
                   env, selected, first>>

set_backtitle == \E backtitle \in Labels :
    Configure([backend EXCEPT !.backtitle = Some(backtitle)])
set_title == \E title \in Labels :
    Configure([backend EXCEPT !.title = Some(title)])
set_oklabel == \E label \in Labels :
    Configure([backend EXCEPT !.label_okbutton = Some(label)])
set_extralabel == \E label \in Labels :
    Configure([backend EXCEPT !.label_extrabutton = Some(label)])
set_cancellabel == \E label \in Labels :
    Configure([backend EXCEPT !.label_cancelbutton = Some(label)])
set_helplabel == \E label \in Labels :
    Configure([backend EXCEPT !.label_helpbutton = Some(label)])
no_cancelbutton ==
    Configure([backend EXCEPT !.cancelbutton = FALSE])
set_insecure == \E insecure \in BOOLEAN :
    Configure([backend EXCEPT !.insecure = insecure])
set_height == \E height \in Dims :
    Configure([backend EXCEPT !.height = to_string(height)])
set_width == \E width \in Dims :
    Configure([backend EXCEPT !.width = to_string(width)])

(***************************************************************************)
(* execute(): builds the command and calls Command::output(), which either *)
(* fails to launch the program or starts the child and blocks until it     *)
(* has terminated.                                                         *)
(***************************************************************************)
\* Mutation: a backend without title keeps the text of the box as its title.
execute_sticky(box, boxtype, boxtype_arg, box_args, before) ==
    /\ pc = "idle"
    /\ request' = box
    /\ args' = command_args(backend, boxtype, boxtype_arg, box_args)
    /\ spawns' = spawns + 1
    /\ output' = NoOutput
    /\ \/ \E e \in OsErrors :
            /\ child' = "failed"
            /\ result' = Err(IoError(e))
            /\ calls' = before \o <<"execute">>
            /\ pc' = "returned"
       \/ /\ child' = "running"
          /\ result' = Pending
          /\ calls' = before \o <<"execute">>
          /\ pc' = "waiting"
    /\ first' = remember(first, backend, box,
                          command_args(backend, boxtype, boxtype_arg, box_args))
    /\ backend' = IF IsSome(backend.title) THEN backend
                  ELSE [backend EXCEPT !.title = Some(box.text)]
    /\ UNCHANGED <<env, selected>>

\* Mutation: a failed launch is not turned into an error; the empty output
\* is classified instead.
execute_unchecked(box, boxtype, boxtype_arg, box_args, before) ==
    /\ pc = "idle"
    /\ request' = box
    /\ args' = command_args(backend, boxtype, boxtype_arg, box_args)
    /\ spawns' = spawns + 1
    /\ output' = NoOutput
    /\ \/ /\ child' = "failed"
          /\ result' = and_then(box.type, [status |-> ExitStatus(Some(0)),
                                           stderr |-> <<>>])
          /\ calls' = before \o <<"execute", classifier(box.type)>>
          /\ pc' = "returned"
       \/ /\ child' = "running"
          /\ result' = Pending
          /\ calls' = before \o <<"execute">>
          /\ pc' = "waiting"
    /\ first' = remember(first, backend, box,
                          command_args(backend, boxtype, boxtype_arg, box_args))
    /\ UNCHANGED <<backend, env, selected>>

execute(box, boxtype, boxtype_arg, box_args, before) ==
    /\ pc = "idle"
    /\ request' = box
    /\ args' = command_args(backend, boxtype, boxtype_arg, box_args)
    /\ spawns' = spawns + 1
    /\ output' = NoOutput
    /\ \/ \E e \in OsErrors :
            /\ child' = "failed"
            /\ result' = Err(IoError(e))
            /\ calls' = before \o <<"execute">>
            /\ pc' = "returned"
       \/ /\ child' = "running"
          /\ result' = Pending
          /\ calls' = before \o <<"execute">>
          /\ pc' = "waiting"
    /\ first' = remember(first, backend, box,
                          command_args(backend, boxtype, boxtype_arg, box_args))
    /\ UNCHANGED <<backend, env, selected>>

show_file_selection == \E file_selection \in FileSelections :
    LET dir == path_to_string(file_selection) IN
    IF IsSome(dir)
    THEN execute(file_selection, "--fselect", Some(Unwrap(dir)), <<>>,
                 <<"path_to_string">>)
    ELSE /\ pc = "idle"
         /\ request' = file_selection
         /\ result' = Err(ErrorFromStr("path not valid"))
         /\ calls' = <<"path_to_string">>
         /\ pc' = "returned"
         /\ UNCHANGED <<backend, args, spawns, child, output, env, selected,
                        first>>

show_form == \E form \in Forms :
    execute(form, "--form", Some(form.text),
            <<to_string(form.form_height)>> \o form.list, <<>>)

show_gauge == \E gauge \in Gauges :
    execute(gauge, "--mixedgauge", Some(gauge.text),
            <<to_string(gauge.percent)>>, <<>>)

show_input == \E input \in Inputs :
    execute(input, "--inputbox", Some(input.text),
            IF IsSome(input.default) THEN <<Unwrap(input.default)>> ELSE <<>>,
            <<>>)

show_menu == \E menu \in Menus :
    execute(menu, "--menu", Some(menu.text),
            <<to_string(menu.menu_height)>> \o menu.list, <<>>)

show_message == \E message \in Messages :
    execute(message, "--msgbox", Some(message.text), <<>>, <<>>)

show_mixed_gauge == \E gauge \in MixedGauges :
    execute(gauge, "--mixedgauge", Some(gauge.text),
            <<to_string(gauge.percent)>>, <<>>)

show_mixed_form == \E form \in MixedForms :
    execute(form, "--mixedform", Some(form.text),
            <<to_string(form.form_height)>> \o form.list, <<>>)

show_password == \E password \in Passwords :
    execute(password, "--passwordbox", Some(password.text), <<>>, <<>>)

show_password_form == \E form \in PasswordForms :
    execute(form, "--passwordform", Some(form.text),
            <<to_string(form.form_height)>> \o form.list, <<>>)

show_question == \E question \in Questions :
    execute(question, "--yesno", Some(question.text), <<>>, <<>>)

\* The external program terminates: with an exit code or by a signal, having
\* written some bytes to its standard error.
child_exit(codes, errs) ==
    /\ child = "running"
    /\ \E code \in codes, stderr \in errs :
          output' = [status |-> ExitStatus(code), stderr |-> stderr]
    /\ child' = "exited"
    /\ UNCHANGED <<backend, request, pc, args, spawns, result, calls, env,
                   selected, first>>

child_exit_sample == child_exit(SampleCodes, SampleStderr)
child_exit_any == child_exit(AllCodes, StderrBytes)

\* Mutation: the output is taken without waiting for the child.
output_returns_early ==
    /\ pc = "waiting"
    /\ result' = and_then(request.type, output)
    /\ calls' = calls \o <<classifier(request.type)>>
    /\ pc' = "returned"
    /\ UNCHANGED <<backend, request, args, spawns, child, output, env,
                   selected, first>>

\* Command::output() returns the collected output and the show_* method
\* classifies it.
output_returns ==
    /\ pc = "waiting"
    /\ child = "exited"
    /\ result' = and_then(request.type, output)
    /\ calls' = calls \o <<classifier(request.type)>>
    /\ pc' = "returned"
    /\ UNCHANGED <<backend, request, args, spawns, child, output, env,
                   selected, first>>

\* The caller takes the result; the backend can be used for the next box.
caller_continues ==
    /\ pc = "returned"
    /\ pc' = "idle"
    /\ request' = NoRequest
    /\ args' = <<>>
    /\ spawns' = 0
    /\ child' = "none"
    /\ output' = NoOutput
    /\ result' = Pending
    /\ calls' = <<>>
    /\ UNCHANGED <<backend, env, selected, first>>

(***************************************************************************)
(* Backend selection (src/lib.rs, src/backends/mod.rs).                    *)
(***************************************************************************)
UpperLower ==
    {<<"A", "a">>, <<"B", "b">>, <<"C", "c">>, <<"D", "d">>, <<"E", "e">>,
     <<"F", "f">>, <<"G", "g">>, <<"H", "h">>, <<"I", "i">>, <<"J", "j">>,
     <<"K", "k">>, <<"L", "l">>, <<"M", "m">>, <<"N", "n">>, <<"O", "o">>,
     <<"P", "p">>, <<"Q", "q">>, <<"R", "r">>, <<"S", "s">>, <<"T", "t">>,
     <<"U", "u">>, <<"V", "v">>, <<"W", "w">>, <<"X", "x">>, <<"Y", "y">>,
     <<"Z", "z">>}

\* str::to_lowercase on ASCII characters.
to_lowercase(chars) ==
    [i \in 1..Len(chars) |->
        IF \E p \in UpperLower : p[1] = chars[i]
        THEN (CHOOSE p \in UpperLower : p[1] = chars[i])[2]
        ELSE chars[i]]

\* env::var: an error when the variable is absent or not valid Unicode.
env_var(e) == IF e.present /\ e.unicode THEN Ok(e.chars) ELSE Err("VarError")

\* Mutation: the name is compared as it is written.
from_str_exact(chars) ==
    IF chars = <<"d", "i", "a", "l", "o", "g">> THEN Some(Default) ELSE None

from_str(chars) ==
    IF to_lowercase(chars) = <<"d", "i", "a", "l", "o", "g">>
    THEN Some(Default) ELSE None

default_backend ==
    /\ pc = "idle"
    /\ IF env_var(env).tag = "Ok" /\ IsSome(from_str(env_var(env).val))
       THEN /\ backend' = Unwrap(from_str(env_var(env).val))
            /\ selected' = [name |-> "Dialog", via |-> "DIALOG"]
       ELSE /\ backend' = Default
            /\ selected' = [name |-> "Dialog", via |-> "fallback"]
    /\ UNCHANGED <<request, pc, args, spawns, child, output, result, calls,
                   env, first>>

Setters ==
    \/ set_backtitle \/ set_title \/ set_oklabel \/ set_extralabel
    \/ set_cancellabel \/ set_helplabel \/ no_cancelbutton \/ set_insecure
    \/ set_height \/ set_width

Shows ==
    \/ show_file_selection \/ show_form \/ show_gauge \/ show_input
    \/ show_menu \/ show_message \/ show_mixed_gauge \/ show_mixed_form
    \/ show_password \/ show_password_form \/ show_question

Next ==
    \/ Setters
    \/ Shows
    \/ child_exit_sample
    \/ output_returns
    \/ caller_continues

Spec == Init /\ [][Next]_vars

\* The same backend left at its default configuration, with every exit code
\* the operating system can report.
NextExit ==
    \/ Shows
    \/ child_exit_any
    \/ output_returns
    \/ caller_continues

SpecExit == Init /\ [][NextExit]_vars

\* show(): the backend is chosen by default_backend() under every value of
\* the DIALOG variable.
InitBackend ==
    /\ InitBox
    /\ env \in EnvValues
    /\ selected = NotSelected
    /\ first = Off

NextBackend ==
    \/ default_backend
    \/ Shows
    \/ child_exit_sample
    \/ output_returns
    \/ caller_continues

SpecBackend == InitBackend /\ [][NextBackend]_vars

\* Repeated invocations, with the first executed one kept for comparison.
InitFrame ==
    /\ InitBox
    /\ env = EnvAbsent
    /\ selected = NotSelected
    /\ first = Armed

NextFrame ==
    \/ set_title
    \/ Shows
    \/ child_exit_sample
    \/ output_returns
    \/ caller_continues

SpecFrame == InitFrame /\ [][NextFrame]_vars

(***************************************************************************)
(* Properties.                                                             *)
(***************************************************************************)
\* The invocation has returned after the child terminated, so its exit
\* status has been classified.
Classified == pc = "returned" /\ child = "exited"

IsOk(r, v) == r.tag = "Ok" /\ r.val = v
IsErr(r, kind) == r.tag = "Err" /\ r.err.kind = kind
ToolFailed(r, status) ==
    IsErr(r, "ExternalToolFailed") /\ r.err.status = status

\* The choice a choice+text dialog type reports for exit code 1: one fixed
\* choice per dialog type.
CancelChoice(type) == "Cancel"

\* C1: in a choice+text dialog (Input, Password, Menu, Form, MixedForm,
\* PasswordForm, FileSelection) with captured text t, exit code 0 yields
\* (Yes, t), 1 yields the one of No and Cancel fixed for the dialog type,
\* paired with t, 2 yields (Help, t), 3 yields (Extra, t), 255 yields
\* (Escape, t), and every other exit code yields ExternalToolFailed and no
\* Choice.
C1_ChoiceTextMapping ==
    (Classified /\ request.type \in ChoiceText /\ Utf8Valid(output.stderr)) =>
        LET code == output.status.code
            t == Some(output.stderr)
        IN  /\ CancelChoice(request.type) \in {"No", "Cancel"}
            /\ code = Some(0) => IsOk(result, <<"Yes", t>>)
            /\ code = Some(1) => IsOk(result, <<CancelChoice(request.type), t>>)
            /\ code = Some(2) => IsOk(result, <<"Help", t>>)
            /\ code = Some(3) => IsOk(result, <<"Extra", t>>)
            /\ code = Some(255) => IsOk(result, <<"Escape", t>>)
            /\ code \notin {Some(0), Some(1), Some(2), Some(3), Some(255)} =>
                    ToolFailed(result, output.status)

C1_Witness ==
    /\ Classified
    /\ request.type = "Menu"
    /\ output.status.code = Some(2)
    /\ output.stderr = <<97, 10, 98>>
    /\ IsOk(result, <<"Help", Some(<<97, 10, 98>>)>>)

\* C2: a Question yields Yes for exit code 0, No for 1, Escape for 255 and
\* ExternalToolFailed for every other exit code (2, 3 and 42 among them); it
\* never yields Cancel, Help or Extra.
C2_QuestionMapping ==
    (Classified /\ request.type = "Question") =>
        LET code == output.status.code
        IN  /\ code = Some(0) => IsOk(result, "Yes")
            /\ code = Some(1) => IsOk(result, "No")
            /\ code = Some(255) => IsOk(result, "Escape")
            /\ code \notin {Some(0), Some(1), Some(255)} =>
                    ToolFailed(result, output.status)
            /\ result.tag = "Ok" => result.val \notin {"Cancel", "Help", "Extra"}

C2_Witness ==
    /\ Classified
    /\ request.type = "Question"
    /\ output.status.code = Some(42)
    /\ ToolFailed(result, ExitStatus(Some(42)))

\* C3: a status-only dialog (Message, Gauge, MixedGauge) succeeds for exit
\* code 0 and fails with ExternalToolFailed, carrying the exit status, for
\* every other exit status, 1 and 255 included.
C3_StatusOnly ==
    (Classified /\ request.type \in StatusOnly) =>
        IF output.status.code = Some(0)
        THEN IsOk(result, Unit)
        ELSE ToolFailed(result, output.status)

C3_Witness ==
    /\ Classified
    /\ request.type = "Gauge"
    /\ output.status.code = Some(255)
    /\ ToolFailed(result, ExitStatus(Some(255)))

InCalls(name) == \E i \in 1..Len(calls) : calls[i] = name
Classifiers == {"require_success", "get_choice", "get_choices"}

\* A FileSelection is being shown or has been shown.
Shown(type) == pc # "idle" /\ request.type = type

\* C4: showing a FileSelection whose path is unset or does not name an
\* existing directory fails with InvalidPath, and no subprocess is spawned
\* for that invocation.
C4_InvalidPath ==
    (Shown("FileSelection")
        /\ (request.path = None \/ ~is_dir(Unwrap(request.path)))) =>
        /\ pc = "returned"
        /\ IsErr(result, "InvalidPath")
        /\ spawns = 0
        /\ child = "none"
        /\ args = <<>>
        /\ ~InCalls("execute")

C4_Witness ==
    /\ Shown("FileSelection")
    /\ request.path = Some("/etc/passwd")
    /\ IsErr(result, "InvalidPath")
    /\ spawns = 0

\* The string with exactly one trailing separator.
EndsWithSep(s) == \E q \in Paths \cup {""} : s = q \o "/"
TrailingSepNormalized(s) == IF EndsWithSep(s) THEN s ELSE s \o "/"

\* The token that follows the dialog-type flag in the argument vector.
TypeFlags == {"--fselect", "--form", "--mixedgauge", "--gauge", "--inputbox",
              "--menu", "--msgbox", "--mixedform", "--passwordbox",
              "--passwordform", "--yesno"}
RECURSIVE FirstFlag(_)
FirstFlag(i) ==
    IF i > Len(args) \/ args[i] \in TypeFlags THEN i ELSE FirstFlag(i + 1)
FlagIndex == FirstFlag(1)
HasFlag == FlagIndex <= Len(args)

\* C5: when the path of a FileSelection names an existing directory,
\* serialization succeeds and the path is serialized as a trailing-separator-
\* normalized string (/etc gives /etc/), also when the path already ends in
\* the separator.
C5_NormalizedPath ==
    (Shown("FileSelection")
        /\ IsSome(request.path) /\ is_dir(Unwrap(request.path))) =>
        /\ InCalls("execute")
        /\ HasFlag
        /\ args[FlagIndex + 1] = TrailingSepNormalized(Unwrap(request.path))

\* The launch of the external program was attempted and failed.
LaunchFailed == child = "failed"

\* C6: when the external program cannot be launched, the invocation of any
\* dialog type returns the spawn error wrapping the OS error, the exit code
\* is not classified, and the launch is not attempted a second time.
C6_SpawnError ==
    LaunchFailed =>
        /\ pc = "returned"
        /\ IsErr(result, "IoError")
        /\ result.err.os \in OsErrors
        /\ \A i \in 1..Len(calls) : calls[i] \notin Classifiers
        /\ spawns = 1

C6_Witness ==
    /\ LaunchFailed
    /\ request.type = "Question"
    /\ result = Err(IoError("NotFound"))
    /\ spawns = 1

\* C7: a show call that got past argument serialization spawns exactly once,
\* whatever exit code or error follows, and its result is there only after
\* the spawned subprocess has terminated; nothing causes a second spawn.
C7_OneSpawn ==
    /\ spawns <= 1
    /\ InCalls("execute") => spawns = 1
    /\ (InCalls("execute") /\ ~LaunchFailed /\ result # Pending) => child = "exited"
    /\ pc = "waiting" => result = Pending
    /\ pc = "returned" => child # "running"

C7_Witness ==
    /\ pc = "returned"
    /\ InCalls("execute")
    /\ child = "exited"
    /\ spawns = 1
    /\ result.tag = "Err"
    /\ output.status.code = Some(42)

OptionFlags == {"--backtitle", "--title", "--ok-label", "--extra-button",
                "--extra-label", "--cancel-label", "--help-button",
                "--help-label", "--no-cancel", "--insecure"}

\* The tokens before the dialog-type flag, and those after it.
Prefix == SubSeq(args, 1, FlagIndex - 1)
Rest == SubSeq(args, FlagIndex + 1, Len(args))

\* The type-specific positional tokens of a dialog box.
BoxTokens(box) ==
    CASE box.type = "Menu" -> <<to_string(box.menu_height)>> \o box.list
      [] box.type \in {"Form", "MixedForm", "PasswordForm"} ->
            <<to_string(box.form_height)>> \o box.list
      [] box.type \in {"Gauge", "MixedGauge"} -> <<to_string(box.percent)>>
      [] box.type = "Input" /\ box.default # None -> <<Unwrap(box.default)>>
      [] OTHER -> <<>>

\* The token in the text position: the display text, but for a
\* FileSelection the directory with the separator appended.
TextToken(box) ==
    IF box.type = "FileSelection" THEN Unwrap(box.path) \o "/" ELSE box.text

\* No optional field of the configuration is set.
NoOptionSet ==
    /\ backend.backtitle = None /\ backend.title = None
    /\ backend.label_okbutton = None /\ backend.label_extrabutton = None
    /\ backend.label_cancelbutton = None /\ backend.label_helpbutton = None
    /\ ~backend.insecure /\ backend.cancelbutton
    /\ backend.height = "0" /\ backend.width = "0"

NoOptionFlag == \A i \in 1..Len(args) : args[i] \notin OptionFlags

\* C8 as stated: with no optional field set the argument list is exactly
\* the four tokens type flag, text, height "0", width "0".
C8_ExactlyFour ==
    (InCalls("execute") /\ NoOptionSet) =>
        /\ Len(args) = 4
        /\ args[1] \in TypeFlags
        /\ args[3] = "0" /\ args[4] = "0"
        /\ NoOptionFlag

\* C8: with no optional field of the configuration set, the argument list
\* starts with exactly the type flag, the text argument, height "0" and
\* width "0"; only the type-specific positional tokens of the dialog box
\* follow, and no optional flag token is present.
C8_NoOptionalFlags ==
    (InCalls("execute") /\ NoOptionSet) =>
        /\ Len(args) = 4 + Len(BoxTokens(request))
        /\ args[1] \in TypeFlags
        /\ args[2] = TextToken(request)
        /\ args[3] = "0" /\ args[4] = "0"
        /\ SubSeq(args, 5, Len(args)) = BoxTokens(request)
        /\ NoOptionFlag

C8_Witness ==
    /\ InCalls("execute") /\ NoOptionSet
    /\ request.type = "Gauge"
    /\ args = <<"--mixedgauge", "Please choose", "0", "0", "50">>

\* The shared options: those with a flag and a value, those with an enabling
\* flag, a label flag and a value, and those that are a bare flag.
Valued ==
    {<<"--backtitle", backend.backtitle>>, <<"--title", backend.title>>,
     <<"--ok-label", backend.label_okbutton>>,
     <<"--cancel-label", backend.label_cancelbutton>>}
Buttons ==
    {<<"--extra-button", "--extra-label", backend.label_extrabutton>>,
     <<"--help-button", "--help-label", backend.label_helpbutton>>}
Bare ==
    {<<"--no-cancel", ~backend.cancelbutton>>, <<"--insecure", backend.insecure>>}

Count(S) == Cardinality(S)
NumSet ==
    Count({o \in Valued : o[2] # None}) + Count({o \in Buttons : o[3] # None})
        + Count({o \in Bare : o[2]})

Occurs(P, tok) == \E i \in 1..Len(P) : P[i] = tok

\* C9 as stated: the shared options come before the type flag, each only if
\* set, and each set option is a flag token followed by its value token.
C9_FlagValuePairs ==
    (InCalls("execute") /\ HasFlag) =>
        LET k == FlagIndex
            P == Prefix
        IN  /\ \A i \in 1..Len(args) : args[i] \in OptionFlags => i < k
            /\ Len(P) = 2 * NumSet
            /\ \A i \in 1..Len(P) :
                  IF i % 2 = 1 THEN P[i] \in OptionFlags
                               ELSE P[i] \notin OptionFlags

\* C9: the shared options come before the dialog-type flag and each is
\* emitted only if set; backtitle, title, ok label and cancel label are a
\* flag token followed by the value token; the extra and the help label are
\* an enabling flag token, a label flag token and the value token; the
\* insecure flag and the cancel-button suppression are a single flag token
\* without a value.
C9_SharedOptions ==
    InCalls("execute") =>
        LET k == FlagIndex
            P == Prefix
        IN  /\ HasFlag
            /\ \A i \in 1..Len(args) : args[i] \in OptionFlags => i < k
            /\ \A o \in Valued :
                  IF o[2] = None THEN ~Occurs(P, o[1])
                  ELSE \E i \in 1..(Len(P) - 1) :
                          P[i] = o[1] /\ P[i + 1] = Unwrap(o[2])
            /\ \A o \in Buttons :
                  IF o[3] = None THEN ~Occurs(P, o[1]) /\ ~Occurs(P, o[2])
                  ELSE \E i \in 1..(Len(P) - 2) :
                          /\ P[i] = o[1] /\ P[i + 1] = o[2]
                          /\ P[i + 2] = Unwrap(o[3])
            /\ \A o \in Bare : Occurs(P, o[1]) <=> o[2]
            /\ Len(P) =
                  2 * Count({o \in Valued : o[2] # None})
                    + 3 * Count({o \in Buttons : o[3] # None})
                    + Count({o \in Bare : o[2]})

C9_Witness ==
    /\ InCalls("execute")
    /\ request.type = "Password"
    /\ args = <<"--title", "Label", "--extra-button", "--extra-label", "Label",
                "--insecure", "--passwordbox", "Please choose", "0", "0">>

\* C10 as stated: for every dialog type, FileSelection included, the type
\* flag is followed by the display text of the request, the height, the
\* width and the type-specific tokens.
C10_DisplayText ==
    InCalls("execute") =>
        /\ HasFlag
        /\ Rest = <<request.text, backend.height, backend.width>>
                    \o BoxTokens(request)

\* C10: after the shared options come the dialog-type flag, then the display
\* text of the request, then the height token and the width token, then the
\* type-specific positional tokens, for every dialog type but FileSelection;
\* for a FileSelection the directory string stands in the place of the
\* display text, which is not passed, and no type-specific token follows.
C10_ArgumentOrder ==
    InCalls("execute") =>
        /\ HasFlag
        /\ Rest = <<TextToken(request), backend.height, backend.width>>
                    \o BoxTokens(request)
        /\ request.type = "FileSelection" =>
              /\ BoxTokens(request) = <<>>
              /\ \A i \in 1..Len(args) : args[i] # request.text

C10_Witness ==
    /\ InCalls("execute")
    /\ request.type = "FileSelection"
    /\ args = <<"--backtitle", "Label", "--fselect", "/etc/", "1", "0">>

\* The tokens after the width token.
Positional == SubSeq(args, FlagIndex + 4, Len(args))

\* The eight tokens of one form field entry.
Tokens8(f) ==
    <<f[1], to_string(f[2]), to_string(f[3]), f[4], to_string(f[5]),
      to_string(f[6]), to_string(f[7]), to_string(f[8])>>

FormTypes == {"Form", "MixedForm", "PasswordForm"}

\* C11: for Form, MixedForm and PasswordForm the type-specific tokens are
\* the row-count token followed, for each field entry in entry order, by the
\* eight tokens label, label-row, label-col, initial value, value-row,
\* value-col, field-width, input-limit, from which the fields are recovered.
C11_EightTokens ==
    (InCalls("execute") /\ request.type \in FormTypes) =>
        LET T == Positional
        IN  \E l \in SeqsUpTo(FieldTuples, MaxFields) :
                /\ request.list = format_list(l)
                /\ Len(T) = 1 + 8 * Len(l)
                /\ T[1] = to_string(request.form_height)
                /\ \A i \in 1..Len(l) :
                      SubSeq(T, 8 * i - 6, 8 * i + 1) = Tokens8(l[i])

\* C12: for a Menu the type-specific tokens are the row-count token followed
\* by the item name and the item value of each list entry, in the order
\* given; entries with the same item name are all kept.
C12_MenuTokens ==
    (InCalls("execute") /\ request.type = "Menu") =>
        LET T == Positional
            made(l) == request = Menu_new(request.text, request.menu_height, l)
        IN  /\ \E l \in SeqsUpTo(MenuEntries, MaxItems) : made(l)
            /\ \A l \in SeqsUpTo(MenuEntries, MaxItems) : made(l) =>
                  /\ Len(T) = 1 + 2 * Len(l)
                  /\ T[1] = to_string(request.menu_height)
                  /\ \A i \in 1..Len(l) :
                        T[2 * i] = l[i][1] /\ T[2 * i + 1] = l[i][2]

C12_Witness ==
    /\ InCalls("execute")
    /\ request.type = "Menu"
    /\ Positional = <<"1", "item1", "value2", "item1", "value1">>

\* C14: an Input dialog, and likewise a Password dialog, returns the text
\* the user entered, or None as its text when the user cancelled.
C14_NoneOnCancel ==
    (Classified /\ request.type \in {"Input", "Password"} /\ result.tag = "Ok") =>
        IF result.val[1] = "Cancel"
        THEN result.val[2] = None
        ELSE result.val[2] = Some(output.stderr)

\* C15: the output of a Question is the button the user pressed, or Cancel
\* if the dialog has been cancelled.
C15_CancelOnCancel ==
    (Classified /\ request.type = "Question") =>
        /\ output.status.code = Some(0) => IsOk(result, "Yes")
        /\ output.status.code = Some(1) => IsOk(result, "No")
        /\ output.status.code = Some(255) => IsOk(result, "Cancel")

\* C16: in a choice+text dialog whose captured error stream is not valid
\* UTF-8 the invocation panics, returning neither a value nor an error, for
\* every exit code, unrecognised ones included; a process that ended without
\* an exit code yields ExternalToolFailed and nothing is decoded.
C16_InvalidUtf8 ==
    (Classified /\ request.type \in ChoiceText /\ ~Utf8Valid(output.stderr)) =>
        IF output.status.code = None
        THEN ToolFailed(result, output.status)
        ELSE result = Panic

C16_Witness ==
    /\ Classified
    /\ request.type = "Input"
    /\ output.status.code = Some(42)
    /\ output.stderr = <<195>>
    /\ result = Panic

C16_WitnessSignal ==
    /\ Classified
    /\ request.type = "Input"
    /\ output.status.code = None
    /\ output.stderr = <<255>>
    /\ ToolFailed(result, ExitStatus(None))

\* The value matches the name when the case of the letters is ignored.
SameIgnoringCase(chars, name) ==
    /\ Len(chars) = Len(name)
    /\ \A i \in 1..Len(name) :
          \/ chars[i] = name[i]
          \/ <<chars[i], name[i]>> \in UpperLower

Registry == {<<"d", "i", "a", "l", "o", "g">>}

\* C13: backend selection matches the value of the environment variable
\* against the registry ignoring case; when the variable is absent or its
\* value is not recognised the built-in implementation is used, so a backend
\* is always selected.
C13_BackendSelection ==
    selected # NotSelected =>
        /\ selected.name = "Dialog"
        /\ selected.via = "DIALOG" <=>
              /\ env.present /\ env.unicode
              /\ \E name \in Registry : SameIgnoringCase(env.chars, name)
        /\ selected.via = "fallback" <=>
              \/ ~env.present \/ ~env.unicode
              \/ \A name \in Registry : ~SameIgnoringCase(env.chars, name)

C13_Witness ==
    /\ selected = [name |-> "Dialog", via |-> "DIALOG"]
    /\ env = EnvSet(<<"D", "i", "a", "L", "o", "g">>)
    /\ InCalls("execute")

C13_WitnessFallback ==
    /\ selected = [name |-> "Dialog", via |-> "fallback"]
    /\ env = EnvSet(<<"z", "e", "n", "i", "t", "y">>)

\* C17: an invocation leaves the dialog box and the configuration unchanged
\* and keeps no state: whatever invocations came in between and however
\* they ended, showing the box of the first invocation again with the same
\* configuration gives the same argument list as the first time.
C17_NoState ==
    [][/\ (pc # "idle" \/ pc' # "idle") => backend' = backend
       /\ (pc # "idle" /\ pc' # "idle") => request' = request
       /\ (/\ first'[1] = "first"
           /\ pc = "idle" /\ pc' # "idle"
           /\ \E i \in 1..Len(calls') : calls'[i] = "execute"
           /\ backend' = first'[2]
           /\ request' = first'[3]) => args' = first'[4]]_vars

C17_Witness ==
    /\ first[1] = "first"
    /\ first[5]
    /\ pc = "returned"
    /\ InCalls("execute")
    /\ backend = first[2]
    /\ request = first[3]
    /\ args = first[4]
    /\ result = Panic

====
